---- MODULE Spec2Model ----
(***************************************************************************)
(* Model of repair_database.py: the paginated scan of the places table,    *)
(* the dictionary + oracle sanitizer of titles, and the write-back.        *)
(*                                                                         *)
(* A text is a sequence of characters; a character is a one-element atom.  *)
(* ASCII characters stand for themselves, the others are named:            *)
(*   "Atilde" U+00C3, "uml" U+00A8, "copy" U+00A9, "acirc" U+00E2,         *)
(*   "euro" U+20AC, "tm" U+2122, "sup1" U+00B9, "not" U+00AC,              *)
(*   "sup2" U+00B2, "zcaron" U+017E, "ccaron" U+010D, "egrave" U+00E8,     *)
(*   "eacute" U+00E9, "rsquo" U+2019, "agrave" U+00E0, "ugrave" U+00F9,    *)
(*   "igrave" U+00EC, "ograve" U+00F2, "ccedil" U+00E7, "ntilde" U+00F1,   *)
(*   "sp" the space, "nl" the newline, "dq" the double quote.              *)
(* Python's None is the text <<"None">>, which no character occurs in.     *)
(***************************************************************************)
EXTENDS Integers, Sequences, FiniteSets, TLC

VARIABLES
    pc,             \* position of the single thread of control
    offset,         \* main: offset
    places,         \* main: the page returned by the last fetch_places
    idx,            \* main: position of the for loop in places (1-based)
    total_scanned,  \* main: total_scanned
    total_fixed,    \* main: total_fixed
    pid,            \* main: pid, the identifier of the current record
    title,          \* main: title of the current record (sanitize_text's argument)
    text,           \* sanitize_text: its local variable text
    new_title,      \* main: new_title, the value sanitize_text returned
    resp,           \* the response the oracle gave to the last call
    gem_in,         \* the text the last ask_gemini_to_fix call was given
    calls,          \* history: oracle calls and delays of the current sanitize_text
    sent,           \* history: PATCH requests sent for the current record
    acked,          \* history: number of PATCH requests answered 200 or 204
    fetched,        \* history: one entry per completed fetch_places call
    fixed_before,   \* history: total_fixed when the current record was taken up
    reported        \* the final summary line, <<>> until printed

vars == <<pc, offset, places, idx, total_scanned, total_fixed, pid, title, text,
          new_title, resp, gem_in, calls, sent, acked, fetched, fixed_before,
          reported>>

----------------------------------------------------------------------------
(* Bounds of the model *)

\* main's batch_size; the source sets 1000, the model scales the page down.
batch_size == 2

\* The number of fetch_places calls a run of the model may make.
MaxFetches == 2

\* The number of tokens a text given to sanitize_text alone is built from.
MaxTokens == 2

----------------------------------------------------------------------------
(* Texts *)

None == <<"None">>

\* Python truthiness of an optional string: None and "" are falsy.
Truthy(t) == t # None /\ t # <<>>

Abs(n) == IF n < 0 THEN -n ELSE n

\* `k in t` for strings.
Contains(t, k) ==
    \E i \in 1..(Len(t) - Len(k) + 1) : SubSeq(t, i, i + Len(k) - 1) = k

\* t.replace(k, v): every non-overlapping occurrence, left to right.
RECURSIVE Replace(_, _, _)
Replace(t, k, v) ==
    IF Len(t) < Len(k) THEN t
    ELSE IF SubSeq(t, 1, Len(k)) = k
         THEN v \o Replace(SubSeq(t, Len(k) + 1, Len(t)), k, v)
         ELSE <<Head(t)>> \o Replace(Tail(t), k, v)

MANUAL_FIXES == <<
    [broken |-> <<"G","r","o","?","n","j","a","n">>,
     fixed  |-> <<"G","r","o","zcaron","n","j","a","n">>],
    [broken |-> <<"V","?","r","s","a","r">>, fixed |-> <<"V","r","s","a","r">>],
    [broken |-> <<"P","o","r","e","?">>, fixed |-> <<"P","o","r","e","ccaron">>],
    [broken |-> <<"R","o","v","i","n","?">>, fixed |-> <<"R","o","v","i","n","j">>],
    [broken |-> <<"M","o","t","o","v","?","n">>,
     fixed  |-> <<"M","o","t","o","v","u","n">>],
    [broken |-> <<"Atilde","uml">>, fixed |-> <<"egrave">>],
    [broken |-> <<"Atilde","copy">>, fixed |-> <<"eacute">>],
    [broken |-> <<"acirc","euro","tm">>, fixed |-> <<"rsquo">>],
    [broken |-> <<"Atilde","sp">>, fixed |-> <<"agrave">>],
    [broken |-> <<"Atilde","sup1">>, fixed |-> <<"ugrave">>],
    [broken |-> <<"Atilde","not">>, fixed |-> <<"igrave">>],
    [broken |-> <<"Atilde","sup2">>, fixed |-> <<"ograve">>],
    [broken |-> <<"C","a","f","?">>, fixed |-> <<"C","a","f","eacute">>],
    [broken |-> <<"F","a","?","a","d","e">>, fixed |-> <<"F","a","ccedil","a","d","e">>],
    [broken |-> <<"E","n","t","r","?","e">>, fixed |-> <<"E","n","t","r","eacute","e">>],
    [broken |-> <<"P","i","?","a">>, fixed |-> <<"P","i","ntilde","a">> ] >>

\* t.replace(k, v, 1): the first occurrence only.
RECURSIVE ReplaceFirst(_, _, _)
ReplaceFirst(t, k, v) ==
    IF Len(t) < Len(k) THEN t
    ELSE IF SubSeq(t, 1, Len(k)) = k
         THEN v \o SubSeq(t, Len(k) + 1, Len(t))
         ELSE <<Head(t)>> \o ReplaceFirst(Tail(t), k, v)

\* Mutant of FixFrom: each entry repairs only its first occurrence.
RECURSIVE FixFrom_ReplaceFirst(_, _)
FixFrom_ReplaceFirst(t, n) ==
    IF n > Len(MANUAL_FIXES) THEN t
    ELSE FixFrom_ReplaceFirst(
             IF Contains(t, MANUAL_FIXES[n].broken)
             THEN ReplaceFirst(t, MANUAL_FIXES[n].broken, MANUAL_FIXES[n].fixed)
             ELSE t,
             n + 1)

\* The loop of sanitize_text over MANUAL_FIXES.items(), entries n.. in order.
RECURSIVE FixFrom(_, _)
FixFrom(t, n) ==
    IF n > Len(MANUAL_FIXES) THEN t
    ELSE FixFrom(IF Contains(t, MANUAL_FIXES[n].broken)
                 THEN Replace(t, MANUAL_FIXES[n].broken, MANUAL_FIXES[n].fixed)
                 ELSE t,
                 n + 1)

ApplyFixes(t) == FixFrom(t, 1)

\* Mutant of HasMarker: every non-empty text is sent to the oracle.
HasMarker_Always(t) == t # <<>>

\* The heuristic of sanitize_text: a "?" or the mojibake marker is left.
HasMarker(t) == Contains(t, <<"?">>) \/ Contains(t, <<"Atilde">>)

----------------------------------------------------------------------------
(* The oracle *)

LengthThreshold == 5

Whitespace == {"sp", "nl"}

\* str.strip()
RECURSIVE LStrip(_)
LStrip(t) == IF t # <<>> /\ Head(t) \in Whitespace THEN LStrip(Tail(t)) ELSE t

RECURSIVE RStrip(_)
RStrip(t) ==
    IF t # <<>> /\ t[Len(t)] \in Whitespace THEN RStrip(SubSeq(t, 1, Len(t) - 1))
    ELSE t

Strip(t) == RStrip(LStrip(t))

\* fixed.replace('"', '')
RemoveQuotes(t) == Replace(t, <<"dq">>, <<>>)

\* Mutant of GateRejects: the gate is off by one.
GateRejects_OffByOne(fixed, t) == Abs(Len(fixed) - Len(t)) > LengthThreshold + 1

\* The length gate of ask_gemini_to_fix: TRUE when the candidate is refused.
GateRejects(fixed, t) == Abs(Len(fixed) - Len(t)) > LengthThreshold

\* Mutant of ask_gemini_to_fix: the final `return text` is missing, so a failed
\* call returns None.
ask_gemini_to_fix_NoFallback(t, r) ==
    IF ~r.exc /\ r.status = 200 /\ r.cands = "present"
    THEN LET fixed == Strip(r.body)
         IN  IF Abs(Len(fixed) - Len(t)) > LengthThreshold THEN t
             ELSE Replace(fixed, <<"dq">>, <<>>)
    ELSE None

\* What ask_gemini_to_fix returns for the text t when the service answers r.
\*   r.exc:    requests.post, response.json() or the indexing raised
\*   r.status: the HTTP status
\*   r.cands:  "absent" (no 'candidates' key), "empty" ([]), "present"
\*   r.body:   candidates[0].content.parts[0].text
ask_gemini_to_fix(t, r) ==
    IF ~r.exc /\ r.status = 200 /\ r.cands = "present"
    THEN LET fixed == Strip(r.body)
         IN  IF GateRejects(fixed, t) THEN t ELSE RemoveQuotes(fixed)
    ELSE t

----------------------------------------------------------------------------
(* The environment: what the oracle and the store may answer *)

Rep(c, n) == [i \in 1..n |-> c]

Min(a, b) == IF a < b THEN a ELSE b

\* A repair that keeps the length: each marker character becomes a letter.
Repair(t) == [i \in 1..Len(t) |-> IF t[i] \in {"?", "Atilde"} THEN "z" ELSE t[i]]

\* Candidate texts the service may put in its first candidate for the text t:
\* the text itself, a repair of it, the repair wrapped in quotes or in
\* whitespace, longer and shorter answers on both sides of the length gate,
\* and answers made of quotation characters only.
Bodies(t) ==
    {t, Repair(t), <<"dq">> \o Repair(t) \o <<"dq">>,
     <<"sp">> \o Repair(t) \o <<"sp", "nl">>,
     Rep("sp", LengthThreshold + 1) \o Repair(t)}
    \cup {Repair(t) \o Rep("x", n) : n \in 1..(LengthThreshold + 1)}
    \cup {SubSeq(Repair(t), 1, Len(t) - n) : n \in 1..Min(Len(t), LengthThreshold + 1)}
    \cup {Rep("dq", n) : n \in 0..(Len(t) + LengthThreshold + 1)}

NoResp == [exc |-> FALSE, status |-> 0, cands |-> "none", body |-> <<>>]

OracleResponses(t) ==
    {[exc |-> TRUE, status |-> 0, cands |-> "none", body |-> <<>>],
     [exc |-> TRUE, status |-> 200, cands |-> "present", body |-> <<>>],
     [exc |-> FALSE, status |-> 500, cands |-> "none", body |-> <<>>],
     [exc |-> FALSE, status |-> 200, cands |-> "absent", body |-> <<>>],
     [exc |-> FALSE, status |-> 200, cands |-> "empty", body |-> <<>>]}
    \cup {[exc |-> FALSE, status |-> 200, cands |-> "present", body |-> b] :
             b \in Bodies(t)}

\* The oracle call failed: it raised, answered a non-success status, or gave
\* no candidate.
OracleFailed(r) == r.exc \/ r.status # 200 \/ r.cands # "present"

\* Titles of the records the store holds.
Titles ==
    {None, <<>>,
     <<"S","p","l","i","t">>,
     <<"P","o","r","e","?">>,
     <<"G","r","?","?","n","j","a","n">>,
     <<"C","a","f","?","?">>}

\* The pages the store may answer with at an offset: at most `limit` records,
\* identifiers assigned by the store.
Pages(off, limit) ==
    UNION {{[i \in 1..n |-> [id |-> off + i, title |-> f[i]]] : f \in [1..n -> Titles]} :
              n \in 0..limit}

FetchStatuses == {200, 500}
PatchStatuses == {200, 201, 204, 500}

\* Texts given to sanitize_text on its own: up to MaxTokens tokens, a token
\* being a dictionary key, a "?", the mojibake marker or a letter.
Tokens ==
    {MANUAL_FIXES[n].broken : n \in 1..Len(MANUAL_FIXES)}
    \cup {<<"?">>, <<"Atilde">>, <<"a">>}

RECURSIVE TextsOf(_)
TextsOf(n) ==
    IF n = 0 THEN {<<>>}
    ELSE LET S == TextsOf(n - 1) IN S \cup {s \o k : s \in S, k \in Tokens}

Texts == TextsOf(MaxTokens) \cup {None}

----------------------------------------------------------------------------
(* fetch_places and update_place *)

\* fetch_places: a non-success status yields the empty page.
fetch_places(status, page) == IF status # 200 THEN <<>> ELSE page

\* The payload update_place builds: only the fields given and truthy.
Payload(t, d) ==
    (IF Truthy(t) THEN {<<"title", t>>} ELSE {})
    \cup (IF Truthy(d) THEN {<<"description", d>>} ELSE {})

\* Mutant of UpdateOk: any 2xx status counts as success.
UpdateOk_Any2xx(status) == status >= 200 /\ status < 300

\* update_place's result for the status the store answered the PATCH with.
UpdateOk(status) == status \in {200, 204}

\* main: `if title and title != new_title`
NeedsUpdate(t, nt) == Truthy(t) /\ t # nt

\* main: `if len(places) < batch_size: break`
LastPage(p) == Len(p) < batch_size

----------------------------------------------------------------------------
(* The run of main *)

Init ==
    /\ pc = "loop"
    /\ offset = 0
    /\ places = <<>>
    /\ idx = 1
    /\ total_scanned = 0
    /\ total_fixed = 0
    /\ pid = 0
    /\ title = None
    /\ text = None
    /\ new_title = None
    /\ resp = NoResp
    /\ gem_in = None
    /\ calls = <<>>
    /\ sent = <<>>
    /\ acked = 0
    /\ fetched = <<>>
    /\ fixed_before = 0
    /\ reported = <<>>

\* main, lines 105-107: one fetch_places call and the test for an empty page.
\* requests.get (or response.json()) may raise; nothing in main catches it.
FetchPlaces ==
    /\ pc = "loop"
    /\ Len(fetched) < MaxFetches
    /\ \/ /\ pc' = "aborted"
          /\ UNCHANGED <<places, idx, fetched>>
       \/ \E status \in FetchStatuses, page \in Pages(offset, batch_size) :
             LET got == fetch_places(status, page)
             IN  /\ places' = got
                 /\ fetched' = Append(fetched,
                                      [offset |-> offset, status |-> status, n |-> Len(got)])
                 /\ idx' = 1
                 /\ pc' = IF got = <<>> THEN "report" ELSE "for"
    /\ UNCHANGED <<offset, total_scanned, total_fixed, pid, title, text, new_title, resp,
                   gem_in, calls, sent, acked, fixed_before, reported>>

\* main, lines 109-113: the for loop takes up the next record and calls
\* sanitize_text on its title.
ForNext ==
    /\ pc = "for"
    /\ idx <= Len(places)
    /\ total_scanned' = total_scanned + 1
    /\ pid' = places[idx].id
    /\ title' = places[idx].title
    /\ text' = places[idx].title
    /\ new_title' = None
    /\ resp' = NoResp
    /\ gem_in' = None
    /\ calls' = <<>>
    /\ sent' = <<>>
    /\ fixed_before' = total_fixed
    /\ pc' = "sanitize"
    /\ UNCHANGED <<offset, places, idx, total_fixed, acked, fetched, reported>>

\* sanitize_text, lines 61-69: the short circuit, the dictionary, the heuristic.
SanitizeDict ==
    /\ pc = "sanitize"
    /\ IF ~Truthy(text)
       THEN /\ new_title' = text
            /\ pc' = "returned"
            /\ UNCHANGED text
       ELSE LET t == ApplyFixes(text)
            IN  /\ text' = t
                /\ IF HasMarker(t)
                   THEN pc' = "ask" /\ UNCHANGED new_title
                   ELSE pc' = "returned" /\ new_title' = t
    /\ UNCHANGED <<offset, places, idx, total_scanned, total_fixed, pid, title, resp,
                   gem_in, calls, sent, acked, fetched, fixed_before, reported>>

\* sanitize_text, line 74: the call of ask_gemini_to_fix (lines 27-58), which
\* catches every exception of the request.
AskGemini ==
    /\ pc = "ask"
    /\ \E r \in OracleResponses(text) :
          /\ resp' = r
          /\ text' = ask_gemini_to_fix(text, r)
    /\ gem_in' = text
    /\ calls' = Append(calls, [ev |-> "ask", arg |-> text])
    /\ pc' = "sleep"
    /\ UNCHANGED <<offset, places, idx, total_scanned, total_fixed, pid, title, new_title,
                   sent, acked, fetched, fixed_before, reported>>

\* Mutant of Sleep: the delay is skipped when the oracle call failed.
Sleep_OnlyOnSuccess ==
    /\ pc = "sleep"
    /\ calls' = IF OracleFailed(resp) THEN calls
                ELSE Append(calls, [ev |-> "sleep", arg |-> <<>>])
    /\ new_title' = text
    /\ pc' = "returned"
    /\ UNCHANGED <<offset, places, idx, total_scanned, total_fixed, pid, title, text, resp,
                   gem_in, sent, acked, fetched, fixed_before, reported>>

\* sanitize_text, lines 75-77: the rate-limit delay, then the return.
Sleep ==
    /\ pc = "sleep"
    /\ calls' = Append(calls, [ev |-> "sleep", arg |-> <<>>])
    /\ new_title' = text
    /\ pc' = "returned"
    /\ UNCHANGED <<offset, places, idx, total_scanned, total_fixed, pid, title, text, resp,
                   gem_in, sent, acked, fetched, fixed_before, reported>>

\* main, lines 116-124: compare, and write the new title back with
\* update_place (lines 87-95). requests.patch may raise; nothing catches it.
CompareUpdate ==
    /\ pc = "returned"
    /\ IF NeedsUpdate(title, new_title) /\ Payload(new_title, None) # {}
       THEN \E exc \in BOOLEAN, status \in PatchStatuses :
               /\ sent' = Append(sent, [id |-> pid,
                                        payload |-> Payload(new_title, None)])
               /\ IF exc
                  THEN /\ pc' = "aborted"
                       /\ UNCHANGED <<total_fixed, acked, idx>>
                  ELSE /\ total_fixed' = total_fixed + (IF UpdateOk(status) THEN 1 ELSE 0)
                       /\ acked' = acked + (IF status \in {200, 204} THEN 1 ELSE 0)
                       /\ idx' = idx + 1
                       /\ pc' = "for"
       ELSE /\ idx' = idx + 1
            /\ pc' = "for"
            /\ UNCHANGED <<sent, total_fixed, acked>>
    /\ UNCHANGED <<offset, places, total_scanned, pid, title, text, new_title, resp, gem_in,
                   calls, fetched, fixed_before, reported>>

\* main, lines 126-127: the end of a page.
PageEnd ==
    /\ pc = "for"
    /\ idx > Len(places)
    /\ IF LastPage(places)
       THEN pc' = "report" /\ UNCHANGED offset
       ELSE pc' = "loop" /\ offset' = offset + batch_size
    /\ UNCHANGED <<places, idx, total_scanned, total_fixed, pid, title, text, new_title, resp,
                   gem_in, calls, sent, acked, fetched, fixed_before, reported>>

\* main, line 129: the final summary.
Report ==
    /\ pc = "report"
    /\ reported' = <<total_scanned, total_fixed>>
    /\ pc' = "done"
    /\ UNCHANGED <<offset, places, idx, total_scanned, total_fixed, pid, title, text,
                   new_title, resp, gem_in, calls, sent, acked, fetched, fixed_before>>

Next ==
    \/ FetchPlaces
    \/ ForNext
    \/ SanitizeDict
    \/ AskGemini
    \/ Sleep
    \/ CompareUpdate
    \/ PageEnd
    \/ Report

Spec == Init /\ [][Next]_vars

----------------------------------------------------------------------------
(* sanitize_text on its own, applied to one text *)

InitSanitize ==
    /\ pc = "sanitize"
    /\ pid = 0
    /\ title \in Texts
    /\ text = title
    /\ offset = 0
    /\ places = <<>>
    /\ idx = 1
    /\ total_scanned = 0
    /\ total_fixed = 0
    /\ new_title = None
    /\ resp = NoResp
    /\ gem_in = None
    /\ calls = <<>>
    /\ sent = <<>>
    /\ acked = 0
    /\ fetched = <<>>
    /\ fixed_before = 0
    /\ reported = <<>>

NextSanitize ==
    \/ SanitizeDict
    \/ AskGemini
    \/ Sleep

SpecSanitize == InitSanitize /\ [][NextSanitize]_vars

----------------------------------------------------------------------------
(* Vocabulary of the properties *)

\* A residual corruption marker: a "?" or the mojibake marker character.
StillMarked(t) == \E i \in 1..Len(t) : t[i] \in {"?", "Atilde"}

\* The dictionary entries whose key occurs in t.
KeysIn(t) == {n \in 1..Len(MANUAL_FIXES) : Contains(t, MANUAL_FIXES[n].broken)}

ExactlyOneKey(t) == Truthy(t) /\ Cardinality(KeysIn(t)) = 1

\* t with every occurrence of its one key replaced by the mapped value.
OneKeyReplaced(t) ==
    LET n == CHOOSE m \in KeysIn(t) : TRUE
    IN  Replace(t, MANUAL_FIXES[n].broken, MANUAL_FIXES[n].fixed)

AskEvent(t) == [ev |-> "ask", arg |-> t]
SleepEvent == [ev |-> "sleep", arg |-> <<>>]

\* sanitize_text called the oracle for the current text.
OracleCalled == calls # <<>> /\ calls[1].ev = "ask"

\* The oracle answered a candidate that the length gate refuses: its trimmed
\* length is further than the threshold from the length of the text given.
CandidateTooFar ==
    /\ OracleCalled
    /\ ~OracleFailed(resp)
    /\ Abs(Len(Strip(resp.body)) - Len(gem_in)) > LengthThreshold

\* The thread of control is inside the processing of one record.
InRecord ==
    \/ pc \in {"sanitize", "ask", "sleep", "returned"}
    \/ pc = "aborted" /\ idx <= Len(places)

\* The last record taken up has been dealt with (or the run died in its write).
AfterRecord == total_scanned > 0 /\ pc \notin {"sanitize", "ask", "sleep", "returned"}

RECURSIVE SumN(_, _)
SumN(f, k) == IF k = 0 THEN 0 ELSE f[k].n + SumN(f, k - 1)

\* Records of the fetched pages that the for loop has taken up so far.
Processed ==
    (IF fetched = <<>> THEN 0 ELSE SumN(fetched, Len(fetched) - 1))
    + (IF InRecord THEN idx ELSE idx - 1)

----------------------------------------------------------------------------
(* C1 *)

\* C1 (part): every fetched page but the last was exactly batch_size long, so
\* no fetch follows an empty or short page, and a failed fetch is an empty page.
C1_PagesBeforeLastFull ==
    /\ \A i \in 1..(Len(fetched) - 1) : fetched[i].n = batch_size
    /\ \A i \in 1..Len(fetched) : fetched[i].status # 200 => fetched[i].n = 0

\* C1: the loop stops fetching after the first empty or short page: no fetch
\* follows such a page, every page before it was exactly batch_size long, and
\* once such a page has been fetched the run ends with the summary printed.
C1_PaginationStopsAndReports ==
    /\ C1_PagesBeforeLastFull
    /\ (/\ fetched # <<>>
        /\ fetched[Len(fetched)].n < batch_size
        /\ pc \in {"done", "aborted"})
       => reported # <<>>

----------------------------------------------------------------------------
(* C2 *)

\* C2: no failure of a fetch, an oracle call or a write aborts the run.
C2_NoFailureAborts == pc # "aborted"

----------------------------------------------------------------------------
(* C3 *)

\* C3: when the dictionary-corrected value of a non-empty input still holds a
\* marker, the oracle is called exactly once, with that value, and exactly one
\* delay follows the call, whatever the oracle answers; otherwise there is no
\* call and no delay.
C3_OneCallOneDelay ==
    /\ pc \in {"sanitize", "ask"} => calls = <<>>
    /\ pc = "sleep" => calls = <<AskEvent(ApplyFixes(title))>>
    /\ pc = "returned" =>
          IF Truthy(title) /\ StillMarked(ApplyFixes(title))
          THEN calls = <<AskEvent(ApplyFixes(title)), SleepEvent>>
          ELSE calls = <<>>

C3_Witness ==
    /\ pc = "returned"
    /\ calls = <<AskEvent(ApplyFixes(title)), SleepEvent>>
    /\ resp.exc
    /\ KeysIn(title) # {}

----------------------------------------------------------------------------
(* C4 *)

\* C4 as stated: an input with exactly one dictionary key comes back with every
\* occurrence of the key replaced, and no oracle call is made.
C4_OneKeyNoOracle ==
    (pc = "returned" /\ ExactlyOneKey(title)) =>
        new_title = OneKeyReplaced(title) /\ calls = <<>>

\* C4 amended: an input with exactly one dictionary key has every occurrence of
\* the key replaced by the mapped value; if the replaced text holds no marker it
\* is returned and no oracle call is made, otherwise the oracle is called once
\* with the replaced text.
C4_OneKeyReplacedThenHeuristic ==
    (pc = "returned" /\ ExactlyOneKey(title)) =>
        LET r == OneKeyReplaced(title)
        IN  /\ KeysIn(r) = {}
            /\ IF StillMarked(r)
               THEN calls = <<AskEvent(r), SleepEvent>>
               ELSE calls = <<>> /\ new_title = r

C4_Witness ==
    /\ pc = "returned"
    /\ ExactlyOneKey(title)
    /\ Len(OneKeyReplaced(title)) > Len(MANUAL_FIXES[CHOOSE m \in KeysIn(title) : TRUE].fixed)
    /\ ~StillMarked(OneKeyReplaced(title))
    /\ new_title # title

----------------------------------------------------------------------------
(* C5 *)

\* C5 as stated: when the length gate refuses the candidate, sanitize_text
\* returns the value it was called with.
C5_GateReturnsOriginalInput ==
    (pc = "returned" /\ CandidateTooFar) => new_title = title

\* C5 amended: when the length gate refuses the (trimmed) candidate,
\* sanitize_text returns the text it gave to the oracle, the dictionary-corrected
\* value; that is the value it was called with when no dictionary key occurs in it.
C5_GateReturnsDictionaryText ==
    (pc = "returned" /\ CandidateTooFar) =>
        /\ new_title = ApplyFixes(title)
        /\ KeysIn(title) = {} => new_title = title

C5_Witness ==
    /\ pc = "returned"
    /\ CandidateTooFar
    /\ KeysIn(title) # {}
    /\ new_title # title

----------------------------------------------------------------------------
(* C6 *)

\* C6: on an input with no dictionary key and no marker, and on an empty or
\* absent input, sanitize_text is the identity and calls no oracle.
C6_IdentityWithoutKeyAndMarker ==
    (pc = "returned" /\ (~Truthy(title) \/ (KeysIn(title) = {} /\ ~StillMarked(title)))) =>
        new_title = title /\ calls = <<>>

C6_Witness ==
    /\ pc = "returned"
    /\ Truthy(title)
    /\ KeysIn(title) = {}
    /\ ~StillMarked(title)
    /\ new_title = title

----------------------------------------------------------------------------
(* C7 *)

\* C7 as stated: when the oracle call fails, sanitize_text returns the title it
\* was given, no update is issued and total_fixed is not incremented.
C7_FailureNoChange ==
    /\ (pc = "returned" /\ OracleCalled /\ OracleFailed(resp)) => new_title = title
    /\ (AfterRecord /\ OracleCalled /\ OracleFailed(resp)) =>
          sent = <<>> /\ total_fixed = fixed_before

\* C7 amended: when the oracle call fails, sanitize_text returns the
\* dictionary-corrected title, the text it gave to the oracle; when no dictionary
\* key occurs in the title this is the title itself, and then no update is
\* issued for the record and total_fixed is not incremented.
C7_FailureKeepsDictionaryTitle ==
    /\ (pc = "returned" /\ OracleCalled /\ OracleFailed(resp)) =>
          /\ new_title = ApplyFixes(title)
          /\ KeysIn(title) = {} => new_title = title
    /\ (AfterRecord /\ OracleCalled /\ OracleFailed(resp) /\ KeysIn(title) = {}) =>
          sent = <<>> /\ total_fixed = fixed_before

C7_Witness ==
    /\ pc = "for"
    /\ AfterRecord
    /\ OracleCalled
    /\ resp.cands = "empty"
    /\ KeysIn(title) = {}
    /\ new_title = title
    /\ sent = <<>>
    /\ total_fixed >= 1

----------------------------------------------------------------------------
(* C8 *)

\* C8: a record whose sanitized title differs from its title gets exactly one
\* PATCH carrying the new title for its identifier; a record whose sanitized
\* title equals its title gets none.
C8_OnePatchPerChangedTitle ==
    AfterRecord =>
        IF title # new_title
        THEN sent = <<[id |-> pid, payload |-> {<<"title", new_title>>}]>>
        ELSE sent = <<>>

----------------------------------------------------------------------------
(* C9 *)

\* C9: ask_gemini_to_fix returns its input, or the trimmed candidate without its
\* quotation characters, and then a value whose length is within the threshold
\* of the input's.
C9_ReturnWithinThreshold ==
    pc = "sleep" =>
        \/ text = gem_in
        \/ /\ text = RemoveQuotes(Strip(resp.body))
           /\ Abs(Len(text) - Len(gem_in)) <= LengthThreshold

----------------------------------------------------------------------------
(* C10 *)

\* C10: the counters never decrease; in every state total_fixed <= total_scanned,
\* total_scanned is the number of records of the fetched pages taken up so far,
\* and total_fixed is the number of PATCH requests answered 200 or 204.
C10_Counters ==
    /\ [](/\ total_fixed <= total_scanned
          /\ total_scanned = Processed
          /\ total_fixed = acked)
    /\ [][total_scanned' >= total_scanned /\ total_fixed' >= total_fixed]_vars

C10_Witness ==
    /\ pc = "for"
    /\ sent # <<>>
    /\ total_fixed = fixed_before
    /\ total_fixed >= 1
    /\ total_scanned > total_fixed + 1

====
